---- MODULE Spec2Model ----
(***************************************************************************)
(* Model of the polygon generator of src/app.py (class PolygonGenerator,   *)
(* lines 568-625) and of the call that reaches it from                     *)
(* VenueProcessor._process_raw_show.                                       *)
(*                                                                         *)
(* Python floats are IEEE 754 binary floating point with round to nearest, *)
(* ties to even.  The model keeps those rules and narrows the significand  *)
(* from 53 to 24 bits (binary32), the widest the 32-bit integers of the    *)
(* model checker can carry.  A float is a record [m, e] of value m * 2^e   *)
(* with 2^23 <= |m| < 2^24, or m = 0 and e = 0.  Python's == does not tell *)
(* 0.0 from -0.0, and neither does the model: it has one zero.             *)
(***************************************************************************)
EXTENDS Integers, Sequences, FiniteSets, TLC

\* ------------------------------------------------------------------------
\* Floating point arithmetic (Python float: *, /, +, unary -, <, int->float)
\* ------------------------------------------------------------------------

RECURSIVE Pow2(_)
Pow2(k) == IF k <= 0 THEN 1 ELSE 2 * Pow2(k - 1)

Prec == 24
MinSig == Pow2(Prec - 1)
MaxSig == Pow2(Prec)

Abs(x) == IF x < 0 THEN -x ELSE x
Sgn(x) == IF x < 0 THEN -1 ELSE 1

FZero == [m |-> 0, e |-> 0]

\* Round p (a significand with `rem` of `unit` left over below it, p in
\* MinSig..MaxSig-1) to nearest, ties to even, and renormalise a carry out.
RoundEven(sign, p, rem, unit, e) ==
    LET up == (2 * rem > unit) \/ (2 * rem = unit /\ p % 2 = 1)
        q  == IF up THEN p + 1 ELSE p
    IN  IF q = MaxSig THEN [m |-> sign * MinSig, e |-> e + 1]
                      ELSE [m |-> sign * q, e |-> e]

\* Shift a positive integer left until it is a normal significand.
RECURSIVE NormUp(_, _, _)
NormUp(sign, p, e) ==
    IF p = 0 THEN FZero
    ELSE IF p >= MinSig THEN [m |-> sign * p, e |-> e]
    ELSE NormUp(sign, 2 * p, e - 1)

\* The number of bits to drop from p >= MaxSig to make it a normal significand.
RECURSIVE Excess(_)
Excess(p) == IF p < MaxSig THEN 0 ELSE 1 + Excess(p \div 2)

\* The float nearest to sign * p * 2^e, p any integer 0 <= p < 2^30.
Normalise(sign, p, e) ==
    IF p < MaxSig THEN NormUp(sign, p, e)
    ELSE LET k == Excess(p)
             u == Pow2(k)
         IN  RoundEven(sign, p \div u, p % u, u, e + k)

\* float(k) for an int k, |k| < 2^30
FromInt(k) == Normalise(Sgn(k), Abs(k), 0)

FNeg(a) == [m |-> -a.m, e |-> a.e]

\* a * b: the 48-bit product of the significands from 12-bit halves.
Half == Pow2(12)
FMul(a, b) ==
    IF a.m = 0 \/ b.m = 0 THEN FZero
    ELSE LET x   == Abs(a.m)
             y   == Abs(b.m)
             xh  == x \div Half
             xl  == x % Half
             yh  == y \div Half
             yl  == y % Half
             mid == xh * yl + xl * yh
             t   == xl * yl + (mid % Half) * Half
             lo  == t % MaxSig
             hi  == xh * yh + mid \div Half + t \div MaxSig
             sg  == Sgn(a.m) * Sgn(b.m)
             e   == a.e + b.e + Prec
         IN  IF hi >= MinSig
             THEN RoundEven(sg, hi, lo, MaxSig, e)
             ELSE RoundEven(sg, 2 * hi + lo \div MinSig, lo % MinSig, MinSig, e - 1)

\* Long division: `steps` more quotient bits of r / d; <<quotient, remainder>>.
RECURSIVE DivBits(_, _, _, _)
DivBits(q, r, d, steps) ==
    IF steps = 0 THEN <<q, r>>
    ELSE IF 2 * r >= d THEN DivBits(2 * q + 1, 2 * r - d, d, steps - 1)
                       ELSE DivBits(2 * q, 2 * r, d, steps - 1)

\* a / b for b # 0 (Python raises ZeroDivisionError before dividing by 0.0).
FDiv(a, b) ==
    IF a.m = 0 THEN FZero
    ELSE LET x  == Abs(a.m)
             y  == Abs(b.m)
             sg == Sgn(a.m) * Sgn(b.m)
             n  == IF x >= y THEN Prec - 1 ELSE Prec
             qr == DivBits(x \div y, x % y, y, n)
         IN  RoundEven(sg, qr[1], qr[2], y, a.e - b.e - n)

\* a + b: the smaller operand is aligned to the larger with three extra bits,
\* the last of them sticky (set when the alignment dropped a nonzero bit).
FAdd(a, b) ==
    IF a.m = 0 THEN b
    ELSE IF b.m = 0 THEN a
    ELSE LET big   == IF a.e >= b.e THEN a ELSE b
             small == IF a.e >= b.e THEN b ELSE a
             d     == big.e - small.e
         IN  IF d > Prec + 2 THEN big
             ELSE LET x    == 8 * Abs(big.m)
                      y8   == 8 * Abs(small.m)
                      u    == Pow2(d)
                      yt   == y8 \div u
                      y    == IF y8 % u # 0 /\ yt % 2 = 0 THEN yt + 1 ELSE yt
                      sum  == Sgn(big.m) * x + Sgn(small.m) * y
                  IN  Normalise(Sgn(sum), Abs(sum), big.e - 3)

\* a < b
FLt(a, b) == FAdd(a, FNeg(b)).m < 0

\* ------------------------------------------------------------------------
\* math.pi, math.sin, math.cos, math.radians and float literals
\* ------------------------------------------------------------------------

F(sig, ex) == [m |-> sig, e |-> ex]

\* The decimal literal num/den (40.7505 is Dec(407505, 10000)): the nearest float.
Dec(num, den) == FDiv(FromInt(num), FromInt(den))

\* math.pi: the float nearest to pi.
Pi == F(13176795, -22)

\* <<x, math.sin(x), math.cos(x)>>: the correctly rounded sine and cosine of
\* every argument the generator can pass for the inputs of this model (the
\* angles i * 2 * pi / points, and the latitudes in radians).  No row has a
\* cosine of zero, and the sine of the float 2 * pi is not zero: pi is not a
\* float, so neither pi / 2 nor 2 * pi is.
TrigTable == {
    <<F(-13176795, -23), F(-8388608, -23), F(-12303662, -48)>>,
    <<F(-9913869, -24), F(-9346908, -24), F(13932347, -24)>>,
    <<F(0, 0), F(0, 0), F(8388608, -23)>>,
    <<F(10541436, -25), F(10368890, -25), F(15956081, -24)>>,
    <<F(13176795, -25), F(12840726, -25), F(15500126, -24)>>,
    <<F(8784530, -24), F(8388608, -24), F(14529495, -24)>>,
    <<F(9583124, -24), F(9070448, -24), F(14113892, -24)>>,
    <<F(10541436, -24), F(9861400, -24), F(13573053, -24)>>,
    <<F(11712707, -24), F(10784187, -24), F(12852093, -24)>>,
    <<F(11932466, -24), F(10951602, -24), F(12709736, -24)>>,
    <<F(13176795, -24), F(11863283, -24), F(11863283, -24)>>,
    <<F(15059194, -24), F(13116956, -24), F(10460423, -24)>>,
    <<F(15812154, -24), F(13573053, -24), F(9861400, -24)>>,
    <<F(8784530, -23), F(14529496, -24), F(16777215, -25)>>,
    <<F(9583124, -23), F(15261093, -24), F(13939013, -25)>>,
    <<F(9882596, -23), F(15500126, -24), F(12840725, -25)>>,
    <<F(10541436, -23), F(15956081, -24), F(10368889, -25)>>,
    <<F(11712707, -23), F(16522333, -24), F(11653327, -26)>>,
    <<F(13176795, -23), F(8388608, -23), F(-12303662, -48)>>,
    <<F(14374685, -23), F(16606448, -24), F(-9550587, -26)>>,
    <<F(15059194, -23), F(16356576, -24), F(-14933128, -26)>>,
    <<F(15812154, -23), F(15956080, -24), F(-10368891, -25)>>,
    <<F(16470994, -23), F(15500126, -24), F(-12840728, -25)>>,
    <<F(8784530, -22), F(14529495, -24), F(-8388609, -24)>>,
    <<F(9223757, -22), F(13573051, -24), F(-9861403, -24)>>,
    <<F(9583124, -22), F(12679372, -24), F(-10986742, -24)>>,
    <<F(9882596, -22), F(11863283, -24), F(-11863283, -24)>>,
    <<F(10541436, -22), F(9861399, -24), F(-13573054, -24)>>,
    <<F(10980663, -22), F(16777210, -25), F(-14529497, -24)>>,
    <<F(11294395, -22), F(14558725, -25), F(-15115749, -24)>>,
    <<F(11529696, -22), F(12840720, -25), F(-15500128, -24)>>,
    <<F(11712707, -22), F(11476287, -25), F(-15765427, -24)>>,
    <<F(11859115, -22), F(10368891, -25), F(-15956080, -24)>>,
    <<F(11978905, -22), F(9453370, -25), F(-16097622, -24)>>,
    <<F(13176795, -22), F(-12303662, -47), F(-8388608, -23)>>,
    <<F(14374685, -22), F(-9453376, -25), F(-16097621, -24)>>,
    <<F(14494475, -22), F(-10368897, -25), F(-15956079, -24)>>,
    <<F(14640884, -22), F(-11476300, -25), F(-15765425, -24)>>,
    <<F(14823894, -22), F(-12840725, -25), F(-15500126, -24)>>,
    <<F(15059194, -22), F(-14558723, -25), F(-15115749, -24)>>,
    <<F(15372928, -22), F(-8388611, -24), F(-14529493, -24)>>,
    <<F(15812154, -22), F(-9861402, -24), F(-13573052, -24)>>,
    <<F(16470994, -22), F(-11863285, -24), F(-11863281, -24)>>,
    <<F(16770467, -22), F(-12679377, -24), F(-10986737, -24)>>,
    <<F(8564917, -21), F(-13573055, -24), F(-9861397, -24)>>,
    <<F(8784530, -21), F(-14529496, -24), F(-16777213, -25)>>,
    <<F(9059047, -21), F(-15500129, -24), F(-12840715, -25)>>,
    <<F(9223757, -21), F(-15956082, -24), F(-10368878, -25)>>,
    <<F(9411997, -21), F(-16356578, -24), F(-14933101, -26)>>,
    <<F(9583124, -21), F(-16606449, -24), F(-9550567, -26)>>,
    <<F(9882596, -21), F(-8388608, -23), F(13426222, -50)>>,
    <<F(10248619, -21), F(-16522331, -24), F(11653362, -26)>>,
    <<F(10541436, -21), F(-15956080, -24), F(10368894, -25)>>,
    <<F(10706146, -21), F(-15500125, -24), F(12840731, -25)>>,
    <<F(10781014, -21), F(-15261092, -24), F(13939018, -25)>>,
    <<F(10980663, -21), F(-14529492, -24), F(8388614, -24)>>,
    <<F(11200276, -21), F(-13573050, -24), F(9861404, -24)>>,
    <<F(11294395, -21), F(-13116958, -24), F(10460421, -24)>>,
    <<F(11529696, -21), F(-11863279, -24), F(11863287, -24)>>,
    <<F(11712707, -21), F(-10784183, -24), F(12852096, -24)>>,
    <<F(11859115, -21), F(-9861401, -24), F(13573052, -24)>>,
    <<F(11978905, -21), F(-9070442, -24), F(14113896, -24)>>,
    <<F(12078729, -21), F(-16777208, -25), F(14529498, -24)>>,
    <<F(12353245, -21), F(-12840725, -25), F(15500127, -24)>>,
    <<F(12517955, -21), F(-10368888, -25), F(15956081, -24)>>,
    <<F(13176795, -21), F(12303662, -46), F(8388608, -23)>>,
    <<F(13176796, -21), F(11464524, -44), F(8388608, -23)>>
}

TrigRow(x) == CHOOSE row \in TrigTable : row[1] = x
Sin(x) == TrigRow(x)[2]
Cos(x) == TrigRow(x)[3]

\* math.radians(x) is x * (pi / 180)
Radians(x) == FMul(x, FDiv(Pi, FromInt(180)))

\* ------------------------------------------------------------------------
\* Inputs
\* ------------------------------------------------------------------------

\* The largest vertex count a direct call of the ring routine is given.
MaxPoints == 5

\* Vertex counts of direct calls: negative, zero, too small, valid, and 11
\* (a count for which (points * 2 * pi) / points is not the float 2 * pi).
PointCounts == (-2 .. MaxPoints) \cup {11}

Radii == {-150, 0, 20, 150}

\* Equator, Madison Square Garden, the poles.
Lats == {FZero, Dec(407505, 10000), FromInt(90), FromInt(-90)}

\* The prime meridian, Madison Square Garden.
Lngs == {FZero, Dec(-739934, 10000)}

\* A latitude that is no number: the geocoding response is JSON, and a null
\* there arrives as None in Show.latitude or ParkingArea.latitude.
JsonNull == [null |-> TRUE]
IsNumber(x) == x # JsonNull

\* Show.latitude and ParkingArea.latitude, as the responses supply them.
ObjectLats == Lats \cup {JsonNull}

\* ParkingArea.type is any string; _determine_parking_type produces the
\* first three.
ParkingTypes == {"garage", "lot", "street", "", "valet"}

\* ------------------------------------------------------------------------
\* PolygonGenerator
\* ------------------------------------------------------------------------

EarthRadius == 6371000

\* The buffer _process_raw_show passes to generate_venue_polygon (also the
\* parameter's default).
VenueBuffer == 150

\* A venue polygon of 12 vertices.
VenueArgsCoarse(buffer_meters) == <<buffer_meters, 12>>

\* generate_venue_polygon's call of the ring routine: <<radius_meters, points>>
VenueArgs(buffer_meters) == <<buffer_meters, 20>>

\* An unknown type falls into the lot branch.
ParkingPresetLotDefault(type) ==
    IF type = "garage" THEN <<50, 8>>
    ELSE IF type = "street" THEN <<20, 8>>
    ELSE <<80, 12>>

\* generate_parking_polygon's if / elif / else: <<buffer_meters, points>>
ParkingPreset(type) ==
    IF type = "garage" THEN <<50, 8>>
    ELSE IF type = "lot" THEN <<80, 12>>
    ELSE <<20, 8>>

\* range(points): the closing point is not emitted.
RangeStopOpen(n) == n

\* range(points + 1) runs i over 0 .. RangeStop - 1
RangeStop(n) == n + 1

\* angle = (i * 2 * math.pi) / points
angle(k, n) == FDiv(FMul(FromInt(k * 2), Pi), FromInt(n))

\* Sine and cosine exchanged.
delta_latSin(r, a, R) ==
    FMul(FDiv(FMul(FromInt(r), Sin(a)), FromInt(R)), FDiv(FromInt(180), Pi))

\* The radius left out of the product.
delta_latUnit(r, a, R) ==
    FMul(FDiv(Cos(a), FromInt(R)), FDiv(FromInt(180), Pi))

\* A negative radius clamped to 0.
delta_latClamped(r, a, R) ==
    FMul(FDiv(FMul(FromInt(IF r < 0 THEN 0 ELSE r), Cos(a)), FromInt(R)),
         FDiv(FromInt(180), Pi))

\* delta_lat = (radius_meters * math.cos(angle)) / self.earth_radius * (180 / math.pi)
delta_lat(r, a, R) ==
    FMul(FDiv(FMul(FromInt(r), Cos(a)), FromInt(R)), FDiv(FromInt(180), Pi))

\* the divisor of delta_lng: self.earth_radius * math.cos(math.radians(lat))
LngDivisor(la, R) == FMul(FromInt(R), Cos(Radians(la)))

\* Cosine in place of sine.
delta_lngCos(r, a, la, R) ==
    FMul(FDiv(FMul(FromInt(r), Cos(a)), LngDivisor(la, R)), FDiv(FromInt(180), Pi))

\* delta_lng = (radius_meters * math.sin(angle)) / (divisor) * (180 / math.pi)
delta_lng(r, a, la, R) ==
    FMul(FDiv(FMul(FromInt(r), Sin(a)), LngDivisor(la, R)), FDiv(FromInt(180), Pi))

\* [new_lat, new_lng]
NewPointLatFirst(la, ln, dlat, dlng) == <<FAdd(la, dlat), FAdd(ln, dlng)>>

\* The offsets are dropped.
NewPointCollapsed(la, ln, dlat, dlng) == <<ln, la>>

\* [new_lng, new_lat]
NewPoint(la, ln, dlat, dlng) == <<FAdd(ln, dlng), FAdd(la, dlat)>>

\* coords.insert(0, point)
AppendPointFront(c, pt) == <<pt>> \o c

\* coords.append(point)
AppendPoint(c, pt) == Append(c, pt)

\* A guard that fails fast at the poles.
BodyRaisesPolarGuard(la, n, R) ==
    \/ n = 0 \/ R = 0 \/ ~IsNumber(la)
    \/ la \in {FromInt(90), FromInt(-90)}
    \/ LngDivisor(la, R).m = 0

\* Only the divisor of delta_lng is looked at.
BodyRaisesLngOnly(la, n, R) ==
    R = 0 \/ ~IsNumber(la) \/ LngDivisor(la, R).m = 0

\* The loop body raises ZeroDivisionError when a divisor is zero, and
\* TypeError when math.radians is given a latitude that is no number.
BodyRaises(la, n, R) ==
    n = 0 \/ R = 0 \/ ~IsNumber(la) \/ LngDivisor(la, R).m = 0

\* The exception of a raising loop body, in the order of lines 616 to 618.
RaisedError(la, n, R) ==
    IF n = 0 \/ R = 0 THEN "ZeroDivisionError"
    ELSE IF ~IsNumber(la) THEN "TypeError"
    ELSE "ZeroDivisionError"

\* No except clause: the exception leaves generate_*_polygon too.
ExceptOutcomeReraise(who) == "raised"

\* Where an exception of the ring routine ends: a direct call raises it, the
\* except clause of generate_venue_polygon and generate_parking_polygon
\* catches it, logs and returns None.
ExceptOutcome(who) == IF who = "direct" THEN "raised" ELSE "returned"

\* logger.error(f"Error generating venue polygon: {e}") and its parking twin
ErrorMessage(who) == IF who = "venue" THEN "Error generating venue polygon"
                     ELSE "Error generating parking polygon"

\* The Show or ParkingArea passed to generate_*_polygon.
ShowObject(la, ln) == [class |-> "Show", latitude |-> la, longitude |-> ln]
ParkingObject(t, la, ln) ==
    [class |-> "ParkingArea", type |-> t, latitude |-> la, longitude |-> ln]
NoObject == [class |-> "none"]

None == [kind |-> "None"]
Ring(c) == [kind |-> "ring", coords |-> c]
Polygon(c) == [kind |-> "Polygon", type |-> "Polygon", coordinates |-> <<c>>]

VARIABLES
    earth_radius,    \* PolygonGenerator.earth_radius
    pc,              \* "idle", "loop", "returned", "raised"
    caller,          \* the entry point of the call: "direct", "venue", "parking"
    parking_type,    \* ParkingArea.type of a parking call
    lat, lng,        \* arguments of _create_circular_polygon
    radius_meters,
    points,
    i,               \* the loop variable
    coords,          \* the list being built
    result,          \* what the entry point returned
    exc,             \* the exception that left the entry point
    argument,        \* the Show or ParkingArea passed to generate_*_polygon
    log              \* what the call wrote with logger.error

vars == <<earth_radius, pc, caller, parking_type, lat, lng, radius_meters,
          points, i, coords, result, exc, argument, log>>

\* Several calls of the ring routine in flight at once.
VARIABLES
    instances,       \* the PolygonGenerator objects: instance |-> its attributes
    calls,           \* thread |-> the frame of its call of _create_circular_polygon
    lists            \* the list objects the calls build their rings in

concVars == <<instances, calls, lists>>

\* One call of VenueProcessor.process_artist_urls.
VARIABLES
    proc_pc,          \* "idle", "for_url", "for_show", "finally", "returned", "raised"
    artist_urls,      \* the argument
    url_index,        \* how many URLs the for loop has taken
    raw_shows,        \* what is left of the current URL's scraped shows
    all_shows,
    processing_stats,
    driver,           \* BandsinTownScraper.driver: "webdriver" or "none"
    scraper_calls,    \* the calls made on self.scraper, in order
    escaping,         \* the exception on its way out of the try block
    returned          \* the returned pair

procVars == <<proc_pc, artist_urls, url_index, raw_shows, all_shows,
              processing_stats, driver, scraper_calls, escaping, returned>>

\* One call of BandsinTownScraper._load_all_dates_selenium.
VARIABLES
    load_pc,          \* "idle", "while", "for", "done"
    clicks,
    selector,         \* the position in show_more_selectors the for loop is at
    button_found,
    iterations,       \* the iterations of the while loop begun in this call
    load_exit         \* how the while loop ended

loadVars == <<load_pc, clicks, selector, button_found, iterations, load_exit>>

\* One request to /api/scrape-artists.
VARIABLES
    api_pc,           \* "idle", "validate", "construct", "processing", "responded", "aborted"
    request,          \* the environment's API key and the JSON body
    response          \* the JSON the endpoint answered

apiVars == <<api_pc, request, response>>

\* While one part of the program is followed the others stand still.
LoadIdle ==
    /\ load_pc = "idle"
    /\ clicks = 0
    /\ selector = 0
    /\ button_found = FALSE
    /\ iterations = 0
    /\ load_exit = "none"
ApiIdle ==
    /\ api_pc = "idle"
    /\ request = <<>>
    /\ response = <<>>
ConcIdle == instances = <<>> /\ calls = <<>> /\ lists = <<>>
ProcIdle ==
    /\ proc_pc = "idle"
    /\ artist_urls = [iterable |-> TRUE, items |-> <<>>]
    /\ url_index = 0
    /\ raw_shows = <<>>
    /\ all_shows = <<>>
    /\ processing_stats = <<>>
    /\ driver = "none"
    /\ scraper_calls = <<>>
    /\ escaping = "none"
    /\ returned = <<>>

Init ==
    /\ earth_radius = EarthRadius
    /\ pc = "idle"
    /\ caller = "none"
    /\ parking_type = ""
    /\ lat = FZero
    /\ lng = FZero
    /\ radius_meters = 0
    /\ points = 0
    /\ i = 0
    /\ coords = <<>>
    /\ result = None
    /\ exc = "none"
    /\ argument = NoObject
    /\ log = <<>>
    /\ ConcIdle
    /\ ProcIdle
    /\ LoadIdle
    /\ ApiIdle

Callable == pc \in {"idle", "returned", "raised"}

\* Entry into _create_circular_polygon: the arguments are bound, coords = [].
Enter(who, ptype, la, ln, r, n) ==
    /\ Callable
    /\ argument' = IF who = "venue" THEN ShowObject(la, ln)
                   ELSE IF who = "parking" THEN ParkingObject(ptype, la, ln)
                   ELSE NoObject
    /\ log' = <<>>
    /\ pc' = "loop"
    /\ caller' = who
    /\ parking_type' = ptype
    /\ lat' = la
    /\ lng' = ln
    /\ radius_meters' = r
    /\ points' = n
    /\ i' = 0
    /\ coords' = <<>>
    /\ result' = None
    /\ exc' = "none"
    /\ UNCHANGED <<earth_radius, concVars, procVars, loadVars, apiVars>>

\* A direct call _create_circular_polygon(lat, lng, radius_meters, points).
CreateCircularPolygon ==
    \E la \in Lats, ln \in Lngs, r \in Radii, n \in PointCounts :
        Enter("direct", "", la, ln, r, n)

\* generate_venue_polygon(show, 150), as _process_raw_show calls it.
GenerateVenuePolygon ==
    \E la \in ObjectLats, ln \in Lngs :
        Enter("venue", "", la, ln, VenueArgs(VenueBuffer)[1], VenueArgs(VenueBuffer)[2])

\* generate_parking_polygon(parking)
GenerateParkingPolygon ==
    \E t \in ParkingTypes, la \in ObjectLats, ln \in Lngs :
        Enter("parking", t, la, ln, ParkingPreset(t)[1], ParkingPreset(t)[2])

\* One iteration of the for loop.  A ZeroDivisionError leaves a direct call;
\* the except clause of generate_*_polygon turns it into a None result.
LoopBody ==
    /\ pc = "loop"
    /\ i < RangeStop(points)
    /\ IF BodyRaises(lat, points, earth_radius)
       THEN /\ pc' = ExceptOutcome(caller)
            /\ exc' = IF ExceptOutcome(caller) = "raised"
                      THEN RaisedError(lat, points, earth_radius) ELSE "none"
            /\ result' = None
            /\ log' = IF caller = "direct" THEN log
                      ELSE Append(log, ErrorMessage(caller))
            /\ UNCHANGED <<i, coords>>
       ELSE LET a == angle(i, points)
                pt == NewPoint(lat, lng,
                               delta_lat(radius_meters, a, earth_radius),
                               delta_lng(radius_meters, a, lat, earth_radius))
            IN  /\ coords' = AppendPoint(coords, pt)
                /\ i' = i + 1
                /\ UNCHANGED <<pc, result, exc, log>>
    /\ UNCHANGED <<earth_radius, caller, parking_type, lat, lng, radius_meters,
                   points, argument, concVars, procVars, loadVars, apiVars>>

\* The generator keeps the ring on the object it was given.
ReturnStoring ==
    /\ pc = "loop"
    /\ i >= RangeStop(points)
    /\ pc' = "returned"
    /\ result' = IF caller = "direct" THEN Ring(coords) ELSE Polygon(coords)
    /\ argument' = [class |-> argument.class, polygon |-> coords]
    /\ UNCHANGED <<earth_radius, caller, parking_type, lat, lng, radius_meters,
                   points, i, coords, exc, log, concVars, procVars, loadVars, apiVars>>

\* The loop is exhausted: return coords; generate_*_polygon wraps it.
Return ==
    /\ pc = "loop"
    /\ i >= RangeStop(points)
    /\ pc' = "returned"
    /\ result' = IF caller = "direct" THEN Ring(coords) ELSE Polygon(coords)
    /\ UNCHANGED <<earth_radius, caller, parking_type, lat, lng, radius_meters,
                   points, i, coords, exc, argument, log, concVars, procVars, loadVars, apiVars>>

Next ==
    \/ CreateCircularPolygon
    \/ GenerateVenuePolygon
    \/ GenerateParkingPolygon
    \/ LoopBody
    \/ Return

Spec == Init /\ [][Next]_<<vars, concVars, procVars, loadVars, apiVars>>

TypeOK ==
    /\ earth_radius = EarthRadius
    /\ pc \in {"idle", "loop", "returned", "raised"}
    /\ caller \in {"none", "direct", "venue", "parking"}
    /\ i \in 0 .. 21
    /\ Len(coords) = i

\* ------------------------------------------------------------------------
\* Properties of the ring routine
\* ------------------------------------------------------------------------

Finished == pc \in {"returned", "raised"}

\* The ring an entry point returned (generate_*_polygon wraps it).
ReturnedRing ==
    IF result.kind = "ring" THEN result.coords
    ELSE IF result.kind = "Polygon" THEN result.coordinates[1]
    ELSE <<>>

DirectReturned == caller = "direct" /\ pc = "returned" /\ result.kind = "ring"

MSGLat == Dec(407505, 10000)
MSGLng == Dec(-739934, 10000)

\* The point the formula of the ring routine gives for index j.
PointFor(j) ==
    LET a == FDiv(FMul(FromInt(j * 2), Pi), FromInt(points))
    IN  <<FAdd(lng, delta_lng(radius_meters, a, lat, earth_radius)),
          FAdd(lat, delta_lat(radius_meters, a, earth_radius))>>

\* radius / 6371000 * (180 / pi), in degrees
Displacement(r) ==
    FMul(FDiv(FromInt(r), FromInt(EarthRadius)), FDiv(FromInt(180), Pi))

\* C1: a call with vertex_count n >= 3 returns a ring of exactly n + 1
\* points, whatever the center (a point of numbers) and the radius.
C1_RingHasNPlusOnePoints ==
    (Finished /\ points >= 3 /\ IsNumber(lat)) =>
        /\ pc = "returned"
        /\ result # None
        /\ Len(ReturnedRing) = points + 1

C1_Witness ==
    /\ DirectReturned
    /\ points = MaxPoints
    /\ radius_meters = 150
    /\ Len(result.coords) = MaxPoints + 1

\* C2: the returned ring is closed, its first point equal to its last point
\* exactly.
C2_RingClosedExactly ==
    (pc = "returned" /\ result # None /\ points >= 3) =>
        ReturnedRing[1] = ReturnedRing[Len(ReturnedRing)]

\* C3 as stated: a call with vertex_count < 3 fails with InvalidParameter and
\* returns no ring.
C3_SmallCountRaisesInvalidParameter ==
    (caller = "direct" /\ Finished /\ points < 3) =>
        (pc = "raised" /\ exc = "InvalidParameter")

\* C3 amended: a vertex_count below 3 is not validated.  1 and 2 return a ring
\* of vertex_count + 1 points, a negative count returns the empty ring, and 0
\* raises ZeroDivisionError; InvalidParameter is never raised.
C3_SmallCountNotValidated ==
    /\ exc # "InvalidParameter"
    /\ (caller = "direct" /\ Finished /\ points < 3) =>
          /\ points \in {1, 2} => (DirectReturned /\ Len(result.coords) = points + 1)
          /\ points < 0 => (DirectReturned /\ result.coords = <<>>)
          /\ points = 0 => (pc = "raised" /\ exc = "ZeroDivisionError")

C3_Witness ==
    /\ DirectReturned
    /\ points = 2
    /\ Len(result.coords) = 3

\* C4: every point is (longitude, latitude): the first component is the
\* center's longitude plus the longitude delta, the second the center's
\* latitude plus the latitude delta.
C4_LongitudeFirst ==
    \A k \in 1 .. Len(coords) :
        LET a == angle(k - 1, points)
        IN  /\ coords[k][1] = FAdd(lng, delta_lng(radius_meters, a, lat, earth_radius))
            /\ coords[k][2] = FAdd(lat, delta_lat(radius_meters, a, earth_radius))

\* Madison Square Garden, 150 m, 4 vertices: the second point (angle pi / 2)
\* is displaced in its first component and keeps the latitude in its second.
C4_Witness ==
    /\ DirectReturned
    /\ lat = MSGLat /\ lng = MSGLng /\ radius_meters = 150 /\ points = 4
    /\ coords[2][1] # lng
    /\ coords[2][2] = lat

\* The float 2 * pi and its two neighbours.
NearTwoPi(a) ==
    LET twoPi == FMul(FromInt(2), Pi)
    IN  a.e = twoPi.e /\ a.m \in (twoPi.m - 1) .. (twoPi.m + 1)

\* C5: the points are in order of increasing index, the k-th being the one
\* computed for angle (k - 1) * 2 * pi / vertex_count; the angle increases
\* strictly from 0 at the first point to 2 * pi (to the last bit of the
\* float) at the last point.
C5_PointsInIndexOrder ==
    /\ \A k \in 1 .. Len(coords) : coords[k] = PointFor(k - 1)
    /\ \A k \in 1 .. Len(coords) - 1 : FLt(angle(k - 1, points), angle(k, points))
    /\ Len(coords) >= 1 => angle(0, points) = FZero
    /\ (pc = "returned" /\ result # None /\ points >= 1) =>
          NearTwoPi(angle(Len(coords) - 1, points))

C5_Witness ==
    /\ DirectReturned
    /\ points = 11
    /\ radius_meters = 150
    /\ lat = MSGLat
    /\ Len(coords) = 12
    /\ coords[1] # coords[2]
    /\ angle(11, 11) # FMul(FromInt(2), Pi)

\* C6 as stated: the point for i = 0 has the whole radius displacement in its
\* longitude, (center.longitude + radius / 6371000 * (180 / pi),
\* center.latitude).
C6_FirstPointDisplacedInLongitude ==
    (DirectReturned /\ points >= 1) =>
        result.coords[1] = <<FAdd(lng, Displacement(radius_meters)), lat>>

\* C6 amended: the point for i = 0 has the whole radius displacement in its
\* latitude, (center.longitude, center.latitude + radius / 6371000 *
\* (180 / pi)); for center (40.7505, -73.9934), radius 150 and 4 vertices the
\* ring has 5 points and its first point is (-73.9934, 40.7505 + 150 /
\* 6371000 * (180 / pi)).
C6_FirstPointDisplacedInLatitude ==
    /\ (DirectReturned /\ points >= 1) =>
          result.coords[1] = <<lng, FAdd(lat, Displacement(radius_meters))>>
    /\ (DirectReturned /\ lat = MSGLat /\ lng = MSGLng /\ radius_meters = 150
            /\ points = 4) =>
          /\ Len(result.coords) = 5
          /\ result.coords[1] = <<MSGLng, FAdd(MSGLat, Displacement(150))>>

C6_Witness ==
    /\ DirectReturned
    /\ lat = MSGLat /\ lng = MSGLng /\ radius_meters = 150 /\ points = 4
    /\ result.coords[1][1] = lng
    /\ FLt(lat, result.coords[1][2])

\* C7: a parking type other than 'garage' and 'lot' (the empty string too)
\* gets the preset of 'street', and no preset has a smaller buffer.
C7_UnknownTypeGetsStreetPreset ==
    (caller = "parking" /\ parking_type \notin {"garage", "lot"}) =>
        /\ <<radius_meters, points>> = <<20, 8>>
        /\ <<radius_meters, points>> = ParkingPreset("street")
        /\ \A t \in ParkingTypes : radius_meters <= ParkingPreset(t)[1]
        /\ radius_meters <= VenueArgs(VenueBuffer)[1]

C7_Witness ==
    /\ caller = "parking"
    /\ parking_type = "valet"
    /\ pc = "returned"
    /\ result.kind = "Polygon"
    /\ radius_meters = 20
    /\ Len(ReturnedRing) = 9

\* C8: the presets lie in the table: venue 100..150 m and 16..20 vertices,
\* garage 40..50 m and 8, lot 60..80 m and 12, street and other 15..20 m and
\* 8; a venue polygon's ring has vertex_count + 1 points, vertex_count in
\* 16..20.
C8_PresetsInsideTable ==
    /\ caller = "venue" => (radius_meters \in 100 .. 150 /\ points \in 16 .. 20)
    /\ (caller = "parking" /\ parking_type = "garage") =>
          (radius_meters \in 40 .. 50 /\ points = 8)
    /\ (caller = "parking" /\ parking_type = "lot") =>
          (radius_meters \in 60 .. 80 /\ points = 12)
    /\ (caller = "parking" /\ parking_type \notin {"garage", "lot"}) =>
          (radius_meters \in 15 .. 20 /\ points = 8)
    /\ (caller = "venue" /\ pc = "returned" /\ result # None) =>
          /\ result.kind = "Polygon"
          /\ Len(ReturnedRing) = points + 1
          /\ Len(ReturnedRing) \in 17 .. 21

C8_Witness ==
    /\ caller = "venue"
    /\ pc = "returned"
    /\ result.kind = "Polygon"
    /\ lat = MSGLat
    /\ Len(ReturnedRing) = 21

\* C9: radius_meters = 0 is not an error: the ring has n + 1 points, each
\* the center (longitude, latitude).
C9_ZeroRadiusCollapsesToCenter ==
    (caller = "direct" /\ Finished /\ radius_meters = 0 /\ points >= 1) =>
        /\ DirectReturned
        /\ Len(result.coords) = points + 1
        /\ \A k \in 1 .. Len(result.coords) : result.coords[k] = <<lng, lat>>

C9_Witness ==
    /\ DirectReturned
    /\ radius_meters = 0
    /\ points = 4
    /\ lat = MSGLat /\ lng = MSGLng
    /\ result.coords = <<<<lng, lat>>, <<lng, lat>>, <<lng, lat>>, <<lng, lat>>, <<lng, lat>>>>

\* C10 as stated: a negative radius_meters fails with InvalidParameter, and
\* no ring is built from the negative value.
C10_NegativeRadiusRaisesInvalidParameter ==
    (caller = "direct" /\ Finished /\ radius_meters < 0) =>
        (pc = "raised" /\ exc = "InvalidParameter")

\* C10 amended: a negative radius_meters is not validated and not clamped:
\* for vertex_count n >= 1 the call returns n + 1 points built from the
\* negative value, each the center minus the deltas of the radius
\* -radius_meters, so the point for i = 0 lies south of the center.
C10_NegativeRadiusBuildsMirroredRing ==
    (caller = "direct" /\ Finished /\ radius_meters < 0 /\ points >= 1) =>
        /\ DirectReturned
        /\ Len(result.coords) = points + 1
        /\ \A k \in 1 .. Len(result.coords) :
              LET a == angle(k - 1, points)
              IN  result.coords[k] =
                    <<FAdd(lng, FNeg(delta_lng(-radius_meters, a, lat, EarthRadius))),
                      FAdd(lat, FNeg(delta_lat(-radius_meters, a, EarthRadius)))>>
        /\ FLt(result.coords[1][2], lat)

C10_Witness ==
    /\ DirectReturned
    /\ radius_meters = -150
    /\ points = 4
    /\ lat = MSGLat /\ lng = MSGLng
    /\ FLt(result.coords[1][2], lat)
    /\ FLt(lat, result.coords[3][2])

FAbs(a) == [m |-> Abs(a.m), e |-> a.e]

Wrapped == caller \in {"venue", "parking"}

\* C11 as stated: generate_venue_polygon and generate_parking_polygon either
\* return a complete ring of vertex_count + 1 points or raise; they never
\* return an absent polygon.
C11_RingOrError ==
    (Wrapped /\ Finished) =>
        \/ pc = "raised"
        \/ (result.kind = "Polygon" /\ Len(ReturnedRing) = points + 1)

\* C11 amended: generate_venue_polygon and generate_parking_polygon never
\* raise.  They return a Polygon whose ring has vertex_count + 1 points, or,
\* exactly when the ring routine raised, log the error and return None; a
\* ring with fewer points is never returned.
C11_PolygonOrNone ==
    (Wrapped /\ Finished) =>
        /\ pc = "returned"
        /\ exc = "none"
        /\ IF BodyRaises(lat, points, earth_radius)
           THEN result = None /\ log = <<ErrorMessage(caller)>>
           ELSE /\ result.kind = "Polygon"
                /\ Len(ReturnedRing) = points + 1
                /\ log = <<>>

C11_Witness ==
    /\ caller = "venue"
    /\ pc = "returned"
    /\ ~IsNumber(lat)
    /\ result = None
    /\ Len(log) = 1

\* C12 as stated: no step of a call changes the generator's earth_radius or
\* the Show or ParkingArea passed in, and none performs I/O.
C12_NoStateChangeNoIO ==
    [][pc = "loop" =>
          /\ earth_radius' = earth_radius
          /\ argument' = argument
          /\ log' = log]_vars

\* C12 amended: no step of a call changes the generator's earth_radius, the
\* Show or ParkingArea passed in or the arguments, and the ring routine
\* performs no I/O; the only output of a call is the one logger.error line
\* generate_venue_polygon / generate_parking_polygon write when the ring
\* routine raised and they return None.
C12_NoStateChangeLogOnlyOnError ==
    [][pc = "loop" =>
          /\ earth_radius' = earth_radius
          /\ argument' = argument
          /\ <<lat, lng, radius_meters, points>>' = <<lat, lng, radius_meters, points>>
          /\ log' # log =>
                /\ Wrapped
                /\ pc' = "returned"
                /\ result' = None
                /\ log' = Append(log, ErrorMessage(caller))]_vars

C12_Witness ==
    /\ caller = "parking"
    /\ pc = "returned"
    /\ result.kind = "Polygon"
    /\ argument = ParkingObject("lot", MSGLat, MSGLng)
    /\ earth_radius = EarthRadius
    /\ log = <<>>
    /\ Len(ReturnedRing) = 13

Polar(la) == la \in {FromInt(90), FromInt(-90)}

\* C15 as stated: a center latitude of exactly +90 or -90 divides by zero in
\* the longitude delta, and no ring is returned.
C15_PolarCenterDividesByZero ==
    (caller = "direct" /\ Finished /\ Polar(lat) /\ points >= 1) =>
        (pc = "raised" /\ exc = "ZeroDivisionError")

\* C15 amended: at a center latitude of exactly +90 or -90 the divisor of the
\* longitude delta is not zero (the cosine of the float nearest pi / 2 is a
\* tiny nonzero number), so nothing is raised: the call returns n + 1 points,
\* and for 3 <= n <= 20 and a radius of at least one metre (either sign) the
\* longitude of the point for i = 1 lies more than 180 degrees away from the
\* center's.
C15_PolarCenterReturnsStretchedRing ==
    (caller = "direct" /\ Finished /\ Polar(lat) /\ points >= 1) =>
        /\ DirectReturned
        /\ Len(result.coords) = points + 1
        /\ LngDivisor(lat, earth_radius).m # 0
        /\ (points \in 3 .. 20 /\ radius_meters # 0) =>
              FLt(FromInt(180), FAbs(FAdd(result.coords[2][1], FNeg(lng))))

C15_Witness ==
    /\ DirectReturned
    /\ lat = FromInt(-90)
    /\ radius_meters = 150
    /\ points = 4
    /\ Len(result.coords) = 5
    /\ FLt(FromInt(180), FAbs(result.coords[2][1]))

\* C17: at center.latitude = 0 the longitude delta at angle pi / 2 and the
\* latitude delta at angle 0 have the same magnitude, radius / 6371000 *
\* (180 / pi), for every radius: with 4 vertices the point for i = 1 is that
\* far east of the center and the point for i = 0 that far north.
C17_NoStretchAtEquator ==
    (caller = "direct" /\ lat = FZero /\ points = 4 /\ Len(coords) >= 2) =>
        LET dlng == delta_lng(radius_meters, angle(1, 4), lat, earth_radius)
            dlat == delta_lat(radius_meters, angle(0, 4), earth_radius)
        IN  /\ FAbs(dlng) = FAbs(dlat)
            /\ FAbs(dlat) = FAbs(Displacement(radius_meters))
            /\ coords[2][1] = FAdd(lng, Displacement(radius_meters))
            /\ coords[1][2] = Displacement(radius_meters)

C17_Witness ==
    /\ DirectReturned
    /\ lat = FZero /\ lng = FZero
    /\ radius_meters = 150
    /\ points = 4
    /\ coords[2][1] = coords[1][2]
    /\ FLt(FZero, coords[1][2])

\* ------------------------------------------------------------------------
\* Concurrent calls of the ring routine
\* ------------------------------------------------------------------------

\* Two threads, each calling _create_circular_polygon again and again.
Threads == {1, 2}

\* Two PolygonGenerator objects (every VenueProcessor constructs its own).
Instances == {1, 2}

\* Arguments of the concurrent calls.  The last two radii are neighbouring
\* whole numbers that one float stands for.
ConcLats == {MSGLat}
ConcLngs == {MSGLng}
ConcRadii == {20, 150, Pow2(Prec), Pow2(Prec) + 1}
ConcPoints == {3, 4}

\* A generator that can be given an ellipsoid of its own.
InstanceAttributesConfigurable(g) ==
    [earth_radius |-> IF g = 1 THEN EarthRadius ELSE 6378137]

\* PolygonGenerator.__init__: self.earth_radius = 6371000
InstanceAttributes(g) == [earth_radius |-> EarthRadius]

\* One list, kept on the generator class, for every call.
CoordsListShared(t) == 1

\* coords = []: the list a call builds its ring in is created by that call
\* and referenced by its local variable only.
CoordsList(t) == t

IdleFrame ==
    [pc |-> "idle", self |-> 1, lat |-> FZero, lng |-> FZero,
     radius_meters |-> 0, points |-> 0, i |-> 0, result |-> None]

\* The ring routine's variables at rest.
RingIdle ==
    /\ earth_radius = EarthRadius
    /\ pc = "idle"
    /\ caller = "none"
    /\ parking_type = ""
    /\ lat = FZero
    /\ lng = FZero
    /\ radius_meters = 0
    /\ points = 0
    /\ i = 0
    /\ coords = <<>>
    /\ result = None
    /\ exc = "none"
    /\ argument = NoObject
    /\ log = <<>>

InitConc ==
    /\ instances = [g \in Instances |-> InstanceAttributes(g)]
    /\ calls = [t \in Threads |-> IdleFrame]
    /\ lists = [t \in Threads |-> <<>>]
    /\ RingIdle
    /\ ProcIdle
    /\ LoadIdle
    /\ ApiIdle

\* Thread t enters g._create_circular_polygon(la, ln, r, n).
ThreadEnter(t, g, la, ln, r, n) ==
    /\ calls[t].pc \in {"idle", "returned", "raised"}
    /\ calls' = [calls EXCEPT ![t] =
                    [pc |-> "loop", self |-> g, lat |-> la, lng |-> ln,
                     radius_meters |-> r, points |-> n, i |-> 0,
                     result |-> None]]
    /\ lists' = [lists EXCEPT ![CoordsList(t)] = <<>>]
    /\ UNCHANGED <<instances, vars, procVars, loadVars, apiVars>>

\* One iteration of thread t's for loop.
ThreadLoopBody(t) ==
    LET f == calls[t]
        R == instances[f.self].earth_radius
    IN  /\ f.pc = "loop"
        /\ f.i < RangeStop(f.points)
        /\ IF BodyRaises(f.lat, f.points, R)
           THEN /\ calls' = [calls EXCEPT ![t].pc = "raised"]
                /\ UNCHANGED lists
           ELSE LET a == angle(f.i, f.points)
                    pt == NewPoint(f.lat, f.lng,
                                   delta_lat(f.radius_meters, a, R),
                                   delta_lng(f.radius_meters, a, f.lat, R))
                IN  /\ lists' = [lists EXCEPT ![CoordsList(t)] = AppendPoint(@, pt)]
                    /\ calls' = [calls EXCEPT ![t].i = f.i + 1]
        /\ UNCHANGED <<instances, vars, procVars, loadVars, apiVars>>

\* Thread t's loop is exhausted: return coords.
ThreadReturn(t) ==
    /\ calls[t].pc = "loop"
    /\ calls[t].i >= RangeStop(calls[t].points)
    /\ calls' = [calls EXCEPT ![t].pc = "returned",
                              ![t].result = Ring(lists[CoordsList(t)])]
    /\ UNCHANGED <<instances, lists, vars, procVars, loadVars, apiVars>>

ConcCall ==
    \E t \in Threads, g \in Instances, la \in ConcLats, ln \in ConcLngs,
       r \in ConcRadii, n \in ConcPoints :
        ThreadEnter(t, g, la, ln, r, n)

ConcLoopBody == \E t \in Threads : ThreadLoopBody(t)

ConcReturn == \E t \in Threads : ThreadReturn(t)

NextConc ==
    \/ ConcCall
    \/ ConcLoopBody
    \/ ConcReturn

SpecConc == InitConc /\ [][NextConc]_<<concVars, vars, procVars, loadVars, apiVars>>

\* _create_circular_polygon from entry to return with no other call in
\* flight: the list of the points for i = 0 .. points.
RunAlone(la, ln, r, n, R) ==
    [k \in 1 .. RangeStop(n) |->
        NewPoint(la, ln, delta_lat(r, angle(k - 1, n), R),
                         delta_lng(r, angle(k - 1, n), la, R))]

\* The arguments of thread t's call.
Args(t) == <<calls[t].lat, calls[t].lng, calls[t].radius_meters, calls[t].points>>

Done(t) == calls[t].pc = "returned"

\* C13: the ring depends on (latitude, longitude, radius_meters,
\* vertex_count) only: every generator's Earth radius is 6371000 at all
\* times, and two returned calls with equal arguments hold equal rings,
\* whichever instances ran them and whatever ran before.
C13_RingDependsOnArgumentsOnly ==
    /\ \A g \in Instances : instances[g].earth_radius = EarthRadius
    /\ \A s, t \in Threads :
          (Done(s) /\ Done(t) /\ Args(s) = Args(t)) =>
              calls[s].result = calls[t].result

C13_Witness ==
    /\ Done(1) /\ Done(2)
    /\ calls[1].self # calls[2].self
    /\ Args(1) = <<MSGLat, MSGLng, 150, 4>>
    /\ Args(2) = Args(1)
    /\ calls[1].result = calls[2].result
    /\ Len(calls[1].result.coords) = 5

\* C14: under every interleaving each call builds, point by point, the ring
\* it builds when run alone, and returns that ring; no call raises.
C14_SameRingAsAlone ==
    \A t \in Threads :
        LET f == calls[t]
            alone == RunAlone(f.lat, f.lng, f.radius_meters, f.points, EarthRadius)
        IN  /\ f.pc # "raised"
            /\ f.pc = "loop" => lists[t] = SubSeq(alone, 1, f.i)
            /\ f.pc = "returned" => f.result = Ring(alone)

\* Both calls in flight half-way, on one generator, with different radii.
C14_Witness ==
    /\ calls[1].pc = "loop" /\ calls[2].pc = "loop"
    /\ calls[1].self = calls[2].self
    /\ calls[1].i = 2 /\ calls[2].i = 3
    /\ calls[1].radius_meters = 20 /\ calls[2].radius_meters = 150
    /\ Len(lists[1]) = 2 /\ Len(lists[2]) = 3
    /\ lists[1][2] # lists[2][2]

\* The squared distance, in degrees of a great circle, from the center
\* (la, ln) to the point pt: the east-west offset shrinks by cos(latitude).
Distance2(pt, la, ln) ==
    LET dy == FAdd(pt[2], FNeg(la))
        dx == FMul(FAdd(pt[1], FNeg(ln)), Cos(Radians(la)))
    IN  FAdd(FMul(dy, dy), FMul(dx, dx))

\* The largest squared distance from the center to a point of thread t's ring.
MaxDistance2(t) ==
    LET ring == calls[t].result.coords
        ds == {Distance2(ring[k], calls[t].lat, calls[t].lng) : k \in 1 .. Len(ring)}
    IN  CHOOSE d \in ds : \A e \in ds : ~FLt(d, e)

\* Two returned calls with one center and vertex count, the radius of s
\* positive and below the radius of t.
SmallerRadius(s, t) ==
    /\ Done(s) /\ Done(t)
    /\ calls[s].lat = calls[t].lat /\ calls[s].lng = calls[t].lng
    /\ calls[s].points = calls[t].points
    /\ 0 < calls[s].radius_meters
    /\ calls[s].radius_meters < calls[t].radius_meters

ParkingLimit == 15

\* The urls of a request: a list of one or two URLs, or a JSON number, which
\* passes the endpoint's emptiness test and cannot be iterated.
UrlList(items) == [iterable |-> TRUE, items |-> items]
NotIterable == [iterable |-> FALSE, items |-> <<>>]
ArtistUrlInputs == {UrlList(<<"a">>), UrlList(<<"a", "b">>), NotIterable}

\* What find_parking_areas returns: ParkingArea objects.
\* place_id is the position of the area in the reply.
Place(id, t, la) ==
    [class |-> "ParkingArea", type |-> t, latitude |-> la, longitude |-> MSGLng,
     place_id |-> id]
Garage(la) == Place(1, "garage", la)
ParkingReplies ==
    { <<>>,
      <<Garage(MSGLat)>>,
      <<Place(1, "lot", MSGLat), Place(2, "street", JsonNull)>>,
      [k \in 1 .. ParkingLimit + 1 |-> Place(k, "garage", MSGLat)],
      [k \in 1 .. ParkingLimit + 2 |->
          Place(k, "garage", IF k = 3 THEN JsonNull ELSE MSGLat)] }

\* Scraped text is a string: the sequence of its characters.  The text of a
\* page element, or a string of the page's JSON, may hold a quotation mark
\* and a line break.
PlainName == <<"M", "S", "G">>
TwoLineName == <<"M", "S", "G", "\"", "\n", "N", "Y">>

\* A scraped show with what the Google APIs will answer for it: no geocoding
\* result, a response that makes _process_raw_show raise, or a location
\* (whose latitude may be null) and the parking areas around it.
NoGeocode == [geocode |-> "no result"]
BadGeocode == [geocode |-> "KeyError"]
Geocoded(name, la, areas) ==
    [geocode |-> "ok", venue_name |-> name, latitude |-> la,
     longitude |-> MSGLng, parking |-> areas]
RawShowInputs ==
    {NoGeocode, BadGeocode, Geocoded(PlainName, JsonNull, <<>>),
     Geocoded(TwoLineName, MSGLat, <<>>)}
        \cup {Geocoded(PlainName, MSGLat, areas) : areas \in ParkingReplies}

\* What scrape_artist_shows returns for a URL.
ScrapeResults ==
    {<<>>} \cup {<<r>> : r \in RawShowInputs}
           \cup {<<NoGeocode, Geocoded(PlainName, MSGLat, <<Garage(MSGLat)>>)>>,
                 <<Geocoded(PlainName, JsonNull, <<>>), BadGeocode>>}

\* Python's truth test of a Show, a polygon dict or None.
Truthy(x) == x # None

\* generate_venue_polygon / generate_parking_polygon from entry to return.
GeneratedPolygon(who, type, la, ln) ==
    LET args == IF who = "venue" THEN VenueArgs(VenueBuffer) ELSE ParkingPreset(type)
    IN  IF BodyRaises(la, args[2], EarthRadius) THEN None
        ELSE Polygon(RunAlone(la, ln, args[1], args[2], EarthRadius))

\* The loop runs over every parking area found.
ParkingPolygonsUnlimited(areas) ==
    LET generated == [k \in 1 .. Len(areas) |->
                        [geometry |-> GeneratedPolygon("parking", areas[k].type,
                                                       areas[k].latitude,
                                                       areas[k].longitude),
                         parking_type |-> areas[k].type,
                         place_id |-> areas[k].place_id]]
    IN  SelectSeq(generated, LAMBDA p : Truthy(p.geometry))

\* The for loop over parking_areas[:15]: a polygon is appended if truthy.
ParkingPolygons(areas) ==
    LET firstOnes == SubSeq(areas, 1, IF Len(areas) < ParkingLimit
                                      THEN Len(areas) ELSE ParkingLimit)
        generated == [k \in 1 .. Len(firstOnes) |->
                        [geometry |-> GeneratedPolygon("parking", firstOnes[k].type,
                                                       firstOnes[k].latitude,
                                                       firstOnes[k].longitude),
                         parking_type |-> firstOnes[k].type,
                         place_id |-> firstOnes[k].place_id]]
    IN  SelectSeq(generated, LAMBDA p : Truthy(p.geometry))

\* _process_raw_show: None unless the venue was geocoded.
process_raw_show(raw) ==
    IF raw.geocode # "ok" THEN None
    ELSE [kind |-> "Show", venue_name |-> raw.venue_name,
          latitude |-> raw.latitude, longitude |-> raw.longitude,
          venue_polygon |-> GeneratedPolygon("venue", "", raw.latitude, raw.longitude),
          parking_polygons |-> ParkingPolygons(raw.parking)]

NewStats ==
    [artists_processed |-> 0, total_shows_found |-> 0, geocoded_shows |-> 0,
     failed_geocoding |-> 0, total_polygons |-> 0]

\* A show that could not be processed is counted nowhere.
CountShowFailureDropped(stats, processed) ==
    IF Truthy(processed)
    THEN [stats EXCEPT !.geocoded_shows = @ + 1,
                       !.total_polygons = @ + (IF Truthy(processed.venue_polygon)
                                               THEN 1 ELSE 0)
                                            + Len(processed.parking_polygons)]
    ELSE stats

\* The venue polygon is counted whether it is there or not.
CountShowVenueAlways(stats, processed) ==
    IF Truthy(processed)
    THEN [stats EXCEPT !.geocoded_shows = @ + 1,
                       !.total_polygons = @ + 1 + Len(processed.parking_polygons)]
    ELSE [stats EXCEPT !.failed_geocoding = @ + 1]

\* The body of the loop over raw_shows, lines 656 to 667.
CountShow(stats, processed) ==
    IF Truthy(processed)
    THEN [stats EXCEPT !.geocoded_shows = @ + 1,
                       !.total_polygons = @ + (IF Truthy(processed.venue_polygon)
                                               THEN 1 ELSE 0)
                                            + Len(processed.parking_polygons)]
    ELSE [stats EXCEPT !.failed_geocoding = @ + 1]

\* The features generate_geojson appends for one show.
ShowFeatures(show) ==
    (IF Truthy(show.venue_polygon)
     THEN <<[type |-> "Feature", geometry |-> show.venue_polygon,
             properties |-> [type |-> "venue"]]>>
     ELSE <<>>)
    \o [k \in 1 .. Len(show.parking_polygons) |->
          [type |-> "Feature", geometry |-> show.parking_polygons[k].geometry,
           properties |-> [type |-> "parking"]]]

RECURSIVE AllFeatures(_)
AllFeatures(shows) ==
    IF shows = <<>> THEN <<>>
    ELSE ShowFeatures(Head(shows)) \o AllFeatures(Tail(shows))

generate_geojson(shows) ==
    [type |-> "FeatureCollection", features |-> AllFeatures(shows),
     metadata |-> [total_shows |-> Len(shows)]]

InitProc ==
    /\ ProcIdle
    /\ RingIdle
    /\ ConcIdle
    /\ LoadIdle
    /\ ApiIdle

InTry == proc_pc \in {"for_url", "for_show"}

\* scrape_artists: a VenueProcessor is constructed (its scraper with a
\* WebDriver or, where Chrome is missing, without) and process_artist_urls is
\* entered: all_shows = [], the statistics at zero.
ProcessArtistUrls ==
    /\ proc_pc \in {"idle", "returned", "raised"}
    /\ \E urls \in ArtistUrlInputs : artist_urls' = urls
    /\ \E d \in {"webdriver", "none"} : driver' = d
    /\ proc_pc' = "for_url"
    /\ url_index' = 0
    /\ raw_shows' = <<>>
    /\ all_shows' = <<>>
    /\ processing_stats' = NewStats
    /\ scraper_calls' = <<>>
    /\ escaping' = "none"
    /\ returned' = <<>>
    /\ UNCHANGED <<vars, concVars, loadVars, apiVars>>

\* The for statement takes the next URL: lines 646 to 651.
BeginUrl ==
    /\ proc_pc = "for_url"
    /\ artist_urls.iterable
    /\ url_index < Len(artist_urls.items)
    /\ \E scraped \in ScrapeResults :
          /\ raw_shows' = scraped
          /\ processing_stats' =
                [processing_stats EXCEPT !.artists_processed = @ + 1,
                                         !.total_shows_found = @ + Len(scraped)]
    /\ scraper_calls' = Append(scraper_calls,
                               [call |-> "scrape_artist_shows",
                                url |-> artist_urls.items[url_index + 1],
                                selenium |-> driver = "webdriver"])
    /\ url_index' = url_index + 1
    /\ proc_pc' = "for_show"
    /\ UNCHANGED <<artist_urls, all_shows, driver, escaping, returned, vars, concVars, loadVars, apiVars>>

\* One iteration of the loop over raw_shows: lines 654 to 667.
ProcessShow ==
    /\ proc_pc = "for_show"
    /\ raw_shows # <<>>
    /\ LET processed_show == process_raw_show(Head(raw_shows))
       IN  /\ all_shows' = IF Truthy(processed_show)
                           THEN Append(all_shows, processed_show) ELSE all_shows
           /\ processing_stats' = CountShow(processing_stats, processed_show)
    /\ raw_shows' = Tail(raw_shows)
    /\ UNCHANGED <<proc_pc, artist_urls, url_index, driver, scraper_calls,
                   escaping, returned, vars, concVars, loadVars, apiVars>>

\* The shows of the URL are done: time.sleep(2), back to the for statement.
Sleep ==
    /\ proc_pc = "for_show"
    /\ raw_shows = <<>>
    /\ proc_pc' = "for_url"
    /\ UNCHANGED <<artist_urls, url_index, raw_shows, all_shows, processing_stats,
                   driver, scraper_calls, escaping, returned, vars, concVars, loadVars, apiVars>>

\* The list of URLs is exhausted: the try block ends.
LoopEnds ==
    /\ proc_pc = "for_url"
    /\ artist_urls.iterable
    /\ url_index = Len(artist_urls.items)
    /\ proc_pc' = "finally"
    /\ UNCHANGED <<artist_urls, url_index, raw_shows, all_shows, processing_stats,
                   driver, scraper_calls, escaping, returned, vars, concVars, loadVars, apiVars>>

\* An exception leaves the try block with no finally clause around it.
EscapeUnprotected ==
    /\ InTry
    /\ \/ ~artist_urls.iterable /\ escaping' = "TypeError"
       \/ artist_urls.iterable /\ escaping' \in {"KeyboardInterrupt", "MemoryError"}
    /\ proc_pc' = "raised"
    /\ UNCHANGED <<artist_urls, url_index, raw_shows, all_shows, processing_stats,
                   driver, scraper_calls, returned, vars, concVars, loadVars, apiVars>>

\* An exception leaves the try block: the TypeError of iterating what is no
\* list, or one that no callee catches (KeyboardInterrupt during the sleep,
\* MemoryError).  Control goes to the finally clause.
Escape ==
    /\ InTry
    /\ \/ ~artist_urls.iterable /\ escaping' = "TypeError"
       \/ artist_urls.iterable /\ escaping' \in {"KeyboardInterrupt", "MemoryError"}
    /\ proc_pc' = "finally"
    /\ UNCHANGED <<artist_urls, url_index, raw_shows, all_shows, processing_stats,
                   driver, scraper_calls, returned, vars, concVars, loadVars, apiVars>>

\* finally: self.scraper.close(), which quits the WebDriver if there is one
\* and swallows what quit raises; then the return, or the exception goes on.
Finally ==
    /\ proc_pc = "finally"
    /\ scraper_calls' = Append(scraper_calls,
                               [call |-> "close", quit |-> driver = "webdriver"])
    /\ IF escaping = "none"
       THEN /\ proc_pc' = "returned"
            /\ returned' = <<all_shows, processing_stats>>
       ELSE /\ proc_pc' = "raised"
            /\ UNCHANGED returned
    /\ UNCHANGED <<artist_urls, url_index, raw_shows, all_shows, processing_stats,
                   driver, escaping, vars, concVars, loadVars, apiVars>>

NextProc ==
    \/ ProcessArtistUrls
    \/ BeginUrl
    \/ ProcessShow
    \/ Sleep
    \/ LoopEnds
    \/ Escape
    \/ Finally

SpecProc == InitProc /\ [][NextProc]_<<procVars, vars, concVars, loadVars, apiVars>>

Left == proc_pc \in {"returned", "raised"}

\* C18: whenever the for statement is about to take a URL, and when
\* process_artist_urls has returned, geocoded_shows + failed_geocoding =
\* total_shows_found, geocoded_shows is the number of shows in the list and
\* artists_processed the number of URLs taken; inside a URL every scraped
\* show is counted in one of the two or still waits in raw_shows.
C18_StatisticsAddUp ==
    LET st == processing_stats
    IN  /\ proc_pc \in {"for_url", "returned"} =>
              /\ st.geocoded_shows + st.failed_geocoding = st.total_shows_found
              /\ st.geocoded_shows = Len(all_shows)
              /\ st.artists_processed = url_index
        /\ proc_pc = "for_show" =>
              /\ st.geocoded_shows + st.failed_geocoding + Len(raw_shows)
                    = st.total_shows_found
              /\ st.geocoded_shows = Len(all_shows)
              /\ st.artists_processed = url_index
        /\ proc_pc = "returned" =>
              /\ returned = <<all_shows, st>>
              /\ st.artists_processed = Len(artist_urls.items)

C18_Witness ==
    /\ proc_pc = "returned"
    /\ returned[2].artists_processed = 2
    /\ returned[2].total_shows_found = 3
    /\ returned[2].geocoded_shows = 1
    /\ returned[2].failed_geocoding = 2
    /\ Len(returned[1]) = 1

\* C19: the returned total_polygons is the number of features
\* generate_geojson makes of the returned shows: as many venue features as
\* shows with a venue polygon, none for a show whose venue_polygon is None,
\* and one parking feature per entry of parking_polygons.
C19_PolygonCountIsFeatureCount ==
    proc_pc = "returned" =>
        LET shows == returned[1]
            features == generate_geojson(shows).features
            ofType(ty) == {k \in 1 .. Len(features) : features[k].properties.type = ty}
            withVenue == {j \in 1 .. Len(shows) : shows[j].venue_polygon # None}
        IN  /\ returned[2].total_polygons = Len(features)
            /\ Cardinality(ofType("venue")) = Cardinality(withVenue)
            /\ \A j \in 1 .. Len(shows) :
                  Len(ShowFeatures(shows[j])) =
                      (IF j \in withVenue THEN 1 ELSE 0) + Len(shows[j].parking_polygons)

\* A show without a venue polygon, and one with a venue polygon and the
\* fifteen parking polygons the limit lets through.
C19_Witness ==
    /\ proc_pc = "returned"
    /\ Len(returned[1]) = 2
    /\ returned[1][1].venue_polygon = None
    /\ returned[1][2].venue_polygon # None
    /\ Len(returned[1][2].parking_polygons) = ParkingLimit
    /\ returned[2].total_polygons = ParkingLimit + 1

\* C20: when control has left process_artist_urls, by return or by an
\* exception, the scraper has been closed exactly once and the close is the
\* last call made on it; until then it has not been closed; a return follows
\* the scraping of every URL.
C20_ClosedOnceAtTheEnd ==
    LET closes == {k \in 1 .. Len(scraper_calls) : scraper_calls[k].call = "close"}
    IN  /\ Left => closes = {Len(scraper_calls)}
        /\ (InTry \/ proc_pc = "finally") => closes = {}
        /\ proc_pc = "returned" => Len(scraper_calls) = Len(artist_urls.items) + 1

\* An interrupt while the second URL is processed.
C20_Witness ==
    /\ proc_pc = "raised"
    /\ escaping = "KeyboardInterrupt"
    /\ Len(scraper_calls) = 3
    /\ scraper_calls[1].call = "scrape_artist_shows"
    /\ scraper_calls[2].call = "scrape_artist_shows"
    /\ scraper_calls[3] = [call |-> "close", quit |-> TRUE]

\* C22: a show that _process_raw_show returns has at most 15 parking
\* polygons; they are the polygons of those of the first 15 parking areas of
\* the search whose polygon could be generated, in the order of the search.
C22_AtMostFifteenInSearchOrder ==
    [][(proc_pc = "for_show" /\ Len(all_shows') = Len(all_shows) + 1) =>
          LET areas == Head(raw_shows).parking
              polygons == all_shows'[Len(all_shows')].parking_polygons
              first == {k \in 1 .. Len(areas) : k <= ParkingLimit}
          IN  /\ Len(polygons) <= ParkingLimit
              /\ \A k \in 1 .. Len(polygons) :
                    /\ polygons[k].place_id \in first
                    /\ k > 1 => polygons[k - 1].place_id < polygons[k].place_id
                    /\ LET area == areas[polygons[k].place_id]
                       IN  /\ polygons[k].parking_type = area.type
                           /\ polygons[k].geometry # None
                           /\ polygons[k].geometry =
                                 GeneratedPolygon("parking", area.type,
                                                  area.latitude, area.longitude)
              /\ {polygons[k].place_id : k \in 1 .. Len(polygons)} =
                    {k \in first : IsNumber(areas[k].latitude)}
      ]_procVars

\* Seventeen areas found, the third without a latitude: the polygons of
\* areas 1, 2 and 4 to 15.
C22_Witness ==
    /\ Len(all_shows) >= 1
    /\ LET polygons == all_shows[1].parking_polygons
       IN  /\ Len(polygons) = ParkingLimit - 1
           /\ polygons[2].place_id = 2
           /\ polygons[3].place_id = 4
           /\ polygons[ParkingLimit - 1].place_id = ParkingLimit

\* ------------------------------------------------------------------------
\* BandsinTownScraper._load_all_dates_selenium
\* ------------------------------------------------------------------------

\* max_clicks = 20  # Prevent infinite loops
max_clicks == 20

\* The number of entries of show_more_selectors.
SelectorCount == 7

\* The iterations are counted up to this number and no further.
IterationCap == max_clicks + 2

InitLoad ==
    /\ LoadIdle
    /\ RingIdle
    /\ ConcIdle
    /\ ProcIdle
    /\ ApiIdle

\* The click is made and not counted.
RegisterClickForgotten(n) == n

\* clicks += 1
RegisterClick(n) == n + 1

\* _load_all_dates_selenium is entered: clicks = 0.
LoadAllDates ==
    /\ load_pc \in {"idle", "done"}
    /\ load_pc' = "while"
    /\ clicks' = 0
    /\ selector' = 0
    /\ button_found' = FALSE
    /\ iterations' = 0
    /\ load_exit' = "none"
    /\ UNCHANGED <<vars, concVars, procVars, apiVars>>

\* while clicks < max_clicks: an iteration begins (button_found = False, the
\* for loop at its first selector) or the loop is left.
WhileTest ==
    /\ load_pc = "while"
    /\ IF clicks < max_clicks
       THEN /\ load_pc' = "for"
            /\ selector' = 1
            /\ button_found' = FALSE
            /\ iterations' = IF iterations < IterationCap
                             THEN iterations + 1 ELSE iterations
            /\ UNCHANGED load_exit
       ELSE /\ load_pc' = "done"
            /\ load_exit' = "max_clicks"
            /\ UNCHANGED <<selector, button_found, iterations>>
    /\ UNCHANGED <<clicks, vars, concVars, procVars, apiVars>>

\* The button of the selector is clickable and clicked: button_found = True,
\* clicks += 1, the sleep, break; "if not button_found" is false and the
\* while statement is reached again.
ClickButton ==
    /\ load_pc = "for"
    /\ selector <= SelectorCount
    /\ button_found' = TRUE
    /\ clicks' = RegisterClick(clicks)
    /\ load_pc' = "while"
    /\ UNCHANGED <<selector, iterations, load_exit, vars, concVars, procVars, apiVars>>

\* The wait for the selector ends in TimeoutException or
\* NoSuchElementException: continue with the next selector.
SelectorTimesOut ==
    /\ load_pc = "for"
    /\ selector <= SelectorCount
    /\ selector' = selector + 1
    /\ UNCHANGED <<load_pc, clicks, button_found, iterations, load_exit,
                   vars, concVars, procVars, apiVars>>

\* The wait or the click raises another exception (an invalid selector, a
\* stale element): the outer except clause logs and breaks.
LoopRaises ==
    /\ load_pc = "for"
    /\ selector <= SelectorCount
    /\ load_pc' = "done"
    /\ load_exit' = "exception"
    /\ UNCHANGED <<clicks, selector, button_found, iterations,
                   vars, concVars, procVars, apiVars>>

\* No selector gave a button: "if not button_found: break".
ForExhausted ==
    /\ load_pc = "for"
    /\ selector > SelectorCount
    /\ load_pc' = "done"
    /\ load_exit' = "no_button"
    /\ UNCHANGED <<clicks, selector, button_found, iterations,
                   vars, concVars, procVars, apiVars>>

LoopStep ==
    \/ WhileTest
    \/ ClickButton
    \/ SelectorTimesOut
    \/ LoopRaises
    \/ ForExhausted

NextLoad ==
    \/ LoadAllDates
    \/ WhileTest
    \/ ClickButton
    \/ SelectorTimesOut
    \/ LoopRaises
    \/ ForExhausted

\* The thread in the loop keeps running: every wait has a timeout of 2
\* seconds and every sleep ends.
SpecLoad ==
    /\ InitLoad
    /\ [][NextLoad]_<<loadVars, vars, concVars, procVars, apiVars>>
    /\ WF_loadVars(LoopStep)

\* C23: the 'show more dates' loop terminates: never more than max_clicks
\* clicks; every iteration begun has registered a click or is the one in
\* progress or the one that left the loop, so there are never more than
\* max_clicks + 1 of them; and a call in the loop reaches its end.
C23_LoadLoopTerminates ==
    /\ [](/\ clicks <= max_clicks
          /\ iterations <= max_clicks + 1
          /\ load_pc = "while" => iterations = clicks
          /\ load_pc = "for" => iterations = clicks + 1 /\ ~button_found
          /\ load_pc = "done" =>
                IF load_exit = "max_clicks"
                THEN clicks = max_clicks /\ iterations = clicks
                ELSE iterations = clicks + 1)
    /\ (load_pc \in {"while", "for"} ~> load_pc = "done")

\* Twenty clicks, then the while test ends the loop.
C23_Witness ==
    /\ load_pc = "done"
    /\ load_exit = "max_clicks"
    /\ clicks = max_clicks
    /\ iterations = max_clicks

\* ------------------------------------------------------------------------
\* The endpoint /api/scrape-artists
\* ------------------------------------------------------------------------

\* os.environ.get('GOOGLE_MAPS_API_KEY'): not set, or a key.
ApiKeys == {"", "AIza"}

\* request.get_json(): urls (absent counts as []), include_parking.
Bodies ==
    [urls : ArtistUrlInputs \cup {UrlList(<<>>)}, include_parking : BOOLEAN]

Requests == [api_key : ApiKeys, body : Bodies]

\* Python's truth test of urls: a number other than 0 and a list that is
\* not empty are true.
UrlsTruthy(urls) == ~urls.iterable \/ urls.items # <<>>

\* The list of URLs is looked at before the key.
ValidateUrlsFirst(req) ==
    IF ~UrlsTruthy(req.body.urls) THEN "No URLs provided"
    ELSE IF req.api_key = "" THEN "Google Maps API key not configured"
    ELSE "ok"

\* The two tests at the head of scrape_artists, in their order.
Validate(req) ==
    IF req.api_key = "" THEN "Google Maps API key not configured"
    ELSE IF ~UrlsTruthy(req.body.urls) THEN "No URLs provided"
    ELSE "ok"

\* jsonify({'success': False, 'error': ...})
Failure(error) == [success |-> FALSE, error |-> error]

\* str() of a value put into an f-string: a text is its characters, a number
\* or None one piece without a line break.
Str(x) == IF x = JsonNull THEN <<"None">> ELSE <<"number">>

\* The f-string of generate_csv for one show.
CsvRow(show) ==
    <<"\"">> \o show.venue_name \o <<"\"", ",">> \o Str(show.latitude)
        \o <<",">> \o Str(show.longitude) \o <<",">>
        \o <<ToString(Len(show.parking_polygons))>>

CsvHeader == <<"venue_name,latitude,longitude,parking_count">>

\* "\n".join(lines)
RECURSIVE Join(_)
Join(lines) ==
    IF lines = <<>> THEN <<>>
    ELSE IF Len(lines) = 1 THEN lines[1]
    ELSE lines[1] \o <<"\n">> \o Join(Tail(lines))

\* generate_csv: the header and one appended row per show, joined.
generate_csv(shows) ==
    Join(<<CsvHeader>> \o [k \in 1 .. Len(shows) |-> CsvRow(shows[k])])

\* The entry of the response's 'shows' list for one show.
ShowSummary(show) ==
    [venue_name |-> show.venue_name, latitude |-> show.latitude,
     longitude |-> show.longitude,
     parking_count |-> Len(show.parking_polygons)]

\* jsonify({'success': True, 'stats': ..., 'shows': ..., 'geojson': ..., 'csv': ...})
Success(shows, stats) ==
    [success |-> TRUE, stats |-> stats,
     shows |-> [k \in 1 .. Len(shows) |-> ShowSummary(shows[k])],
     geojson |-> generate_geojson(shows),
     csv |-> generate_csv(shows)]

InitApi ==
    /\ ApiIdle
    /\ ProcIdle
    /\ RingIdle
    /\ ConcIdle
    /\ LoadIdle

\* A POST arrives; no VenueProcessor exists for it yet.
ReceiveRequest ==
    /\ api_pc \in {"idle", "responded", "aborted"}
    /\ \E req \in Requests : request' = req
    /\ api_pc' = "validate"
    /\ response' = <<>>
    /\ proc_pc' = "idle"
    /\ artist_urls' = [iterable |-> TRUE, items |-> <<>>]
    /\ url_index' = 0
    /\ raw_shows' = <<>>
    /\ all_shows' = <<>>
    /\ processing_stats' = <<>>
    /\ driver' = "none"
    /\ scraper_calls' = <<>>
    /\ escaping' = "none"
    /\ returned' = <<>>
    /\ UNCHANGED <<vars, concVars, loadVars>>

\* The key test and the urls test: a failure answers at once.
ValidateRequest ==
    /\ api_pc = "validate"
    /\ IF Validate(request) = "ok"
       THEN /\ api_pc' = "construct"
            /\ UNCHANGED response
       ELSE /\ api_pc' = "responded"
            /\ response' = Failure(Validate(request))
    /\ UNCHANGED <<request, procVars, vars, concVars, loadVars>>

\* processor = VenueProcessor(api_key) (its scraper with a WebDriver or
\* without) and the entry into processor.process_artist_urls(urls, ...).
ConstructAndCall ==
    /\ api_pc = "construct"
    /\ api_pc' = "processing"
    /\ artist_urls' = request.body.urls
    /\ \E d \in {"webdriver", "none"} : driver' = d
    /\ proc_pc' = "for_url"
    /\ url_index' = 0
    /\ raw_shows' = <<>>
    /\ all_shows' = <<>>
    /\ processing_stats' = NewStats
    /\ scraper_calls' = <<>>
    /\ escaping' = "none"
    /\ returned' = <<>>
    /\ UNCHANGED <<request, response, vars, concVars, loadVars>>

\* process_artist_urls has returned or raised: "if not shows", the outputs
\* and the answer; "except Exception" answers with the error, and what is
\* no Exception goes on to the server.
Respond ==
    /\ api_pc = "processing"
    /\ proc_pc \in {"returned", "raised"}
    /\ IF proc_pc = "raised"
       THEN IF escaping = "KeyboardInterrupt"
            THEN api_pc' = "aborted" /\ UNCHANGED response
            ELSE api_pc' = "responded" /\ response' = Failure(escaping)
       ELSE /\ api_pc' = "responded"
            /\ response' =
                  IF returned[1] = <<>>
                  THEN Failure("No shows could be processed from the provided URLs")
                  ELSE Success(returned[1], returned[2])
    /\ UNCHANGED <<request, procVars, vars, concVars, loadVars>>

NextApi ==
    \/ ReceiveRequest
    \/ ValidateRequest
    \/ ConstructAndCall
    \/ BeginUrl
    \/ ProcessShow
    \/ Sleep
    \/ LoopEnds
    \/ Escape
    \/ Finally
    \/ Respond

SpecApi == InitApi /\ [][NextApi]_<<apiVars, procVars, vars, concVars, loadVars>>

Responded == api_pc = "responded"

\* The number of lines of a text.
LineCount(text) == 1 + Cardinality({k \in 1 .. Len(text) : text[k] = "\n"})

ParkingFeatures(geojson) ==
    {k \in 1 .. Len(geojson.features) :
        geojson.features[k].properties.type = "parking"}

\* C21: a request with include_parking = false is answered without parking
\* polygons: every show of the response has parking_count 0 and the GeoJSON
\* has no feature of type 'parking'.
C21_NoParkingWhenNotIncluded ==
    (Responded /\ response.success /\ ~request.body.include_parking) =>
        /\ \A k \in 1 .. Len(response.shows) : response.shows[k].parking_count = 0
        /\ ParkingFeatures(response.geojson) = {}

\* C24: a request without a configured key, or with an empty list of URLs,
\* is answered success = false while no VenueProcessor has been constructed
\* and nothing has been scraped or geocoded; a missing key is reported
\* whatever the list of URLs is.
C24_ValidatesBeforeWork ==
    /\ api_pc \in {"validate", "construct"} => ProcIdle
    /\ (Responded /\ (request.api_key = "" \/ request.body.urls = UrlList(<<>>))) =>
          /\ response = Failure(IF request.api_key = ""
                                THEN "Google Maps API key not configured"
                                ELSE "No URLs provided")
          /\ ProcIdle

\* No key and no URLs: the missing key is what is reported.
C24_Witness ==
    /\ Responded
    /\ request.api_key = ""
    /\ request.body.urls = UrlList(<<>>)
    /\ response = Failure("Google Maps API key not configured")
    /\ driver = "none" /\ scraper_calls = <<>>

\* C25: a response has success = true only if a show was geocoded; then
\* 'shows' has stats.geocoded_shows entries, the CSV that many lines and a
\* header line, and geojson.metadata.total_shows is that number; when
\* process_artist_urls returned no show the response is success = false and
\* holds neither stats nor geojson nor csv.
C25_SuccessResponseConsistent ==
    Responded =>
        /\ response.success =>
              /\ response.stats.geocoded_shows >= 1
              /\ Len(response.shows) = response.stats.geocoded_shows
              /\ LineCount(response.csv) = response.stats.geocoded_shows + 1
              /\ response.geojson.metadata.total_shows = response.stats.geocoded_shows
        /\ (proc_pc = "returned" /\ returned[1] = <<>>) =>
              /\ ~response.success
              /\ DOMAIN response = {"success", "error"}
====
